---- MODULE Spec2Model ----
(***************************************************************************)
(* Placement tracker (placement_tracker_app.py): one Streamlit script run   *)
(* per interaction.  Every run calls init_csv and load_data (lines 39-40)   *)
(* and then executes the branch of the selected menu entry.  The state is   *)
(* the two CSV files on disk, and per browser session the position of the   *)
(* script run, the data frame it loaded, its widget values and what it      *)
(* rendered.                                                                *)
(*                                                                          *)
(* Values.  A cell of a data frame is a record [k, n, s]: k = "num" with    *)
(* the number n, k = "str" with the text s (a sequence of one-character     *)
(* strings), or k = "na" (pandas' NaN).  A field of a CSV file is the same  *)
(* record with k = "empty" for an empty field.  Numbers are counted in      *)
(* units of the widget's step; their CSV text is taken to parse back to     *)
(* the same number.  Texts are drawn from letters only: a text that         *)
(* read_csv would parse as a number or as one of its NaN spellings ("NA",   *)
(* "null", ...) is outside the inputs enumerated here.                      *)
(*                                                                          *)
(* Variables.  placements_csv, eligible_csv: the two files, each            *)
(* [exists, cols, rows] with rows mapping column names to fields.  pc[s]:   *)
(* "idle" between runs, "loaded" after load_data.  df[s]: the run's local   *)
(* data frame.  inp[s]: the widget values the run read.  out[s]: what it    *)
(* rendered.  stale[s]: whether placements.csv had changed between the      *)
(* run's load_data and its save_data; the program does not compute this,    *)
(* it is recorded to tell an overwrite of another session's save from a     *)
(* save on top of it.                                                       *)
(***************************************************************************)
EXTENDS Integers, Sequences, FiniteSets, TLC

VARIABLES placements_csv, eligible_csv, pc, df, inp, out, stale

vars == <<placements_csv, eligible_csv, pc, df, inp, out, stale>>

\* Rows a file may hold before the Add form is no longer submitted.
MaxRows == 2

Sessions == {"s1", "s2"}

-----------------------------------------------------------------------------
(* Cells, fields and texts *)

NA == [k |-> "na", n |-> 0, s |-> <<>>]

EMPTY == [k |-> "empty", n |-> 0, s |-> <<>>]

Num(x) == [k |-> "num", n |-> x, s |-> <<>>]

Str(t) == [k |-> "str", n |-> 0, s |-> t]

ColSet(cols) == {cols[i] : i \in DOMAIN cols}

\* The column list init_csv writes.  Python joins the adjacent literals
\* "Backlogs_Allowed" "Eligibility_10th" (no comma) into one name.
InitColumns ==
  <<"Company", "Role", "Package(LPA)", "Eligibility_CGPA",
    "Backlogs_AllowedEligibility_10th", "Eligibility_12th">>

\* The keys of new_entry, in order.
EntryColumns ==
  <<"Company", "Role", "Package(LPA)", "Eligibility_CGPA",
    "Backlogs_Allowed", "Eligibility_10th", "Eligibility_12th">>

NoFile == [exists |-> FALSE, cols |-> <<>>, rows |-> <<>>]

NoFrame == [cols |-> <<>>, rows |-> <<>>]

\* DataFrame.to_csv(index=False) of one cell: NaN and the empty text are both
\* written as an empty field.
ToCsvField(c) ==
  IF c.k = "na" \/ (c.k = "str" /\ c.s = <<>>) THEN EMPTY ELSE c

\* pd.read_csv of one field: an empty field is read as NaN.
FromCsvField(f) ==
  IF f.k = "empty" THEN NA ELSE f

to_csv(frame) ==
  [exists |-> TRUE,
   cols |-> frame.cols,
   rows |-> [i \in DOMAIN frame.rows |->
              [c \in ColSet(frame.cols) |-> ToCsvField(frame.rows[i][c])]]]

read_csv(file) ==
  [cols |-> file.cols,
   rows |-> [i \in DOMAIN file.rows |->
              [c \in ColSet(file.cols) |-> FromCsvField(file.rows[i][c])]]]

\* init_csv: creates the file, header only, when it does not exist.
init_csv(file) ==
  IF ~file.exists THEN to_csv([cols |-> InitColumns, rows |-> <<>>]) ELSE file

load_data(file) == read_csv(file)

save_data(frame) == to_csv(frame)

-----------------------------------------------------------------------------
(* Widget values and rendered output of one script run *)

NoEntry == [c \in ColSet(EntryColumns) |-> NA]

NoProfile == [user_cgpa |-> 0, user_backlogs |-> 0, user_10th |-> 0, user_12th |-> 0]

NoInput ==
  [choice |-> "", search_term |-> <<>>, sort_order |-> "None",
   new_entry |-> NoEntry, profile |-> NoProfile,
   selected_entry |-> NA, clicked |-> FALSE]

\* kind: what the run rendered (st.warning, st.dataframe, st.success, ...), or
\* "exception" when the run raised; frame: the table or list shown; text: the
\* name in the success message; download: the data of st.download_button;
\* exports: how many times the run wrote eligible_companies.csv.
NoOutput ==
  [kind |-> "none", frame |-> NoFrame, text |-> NA, download |-> NoFile,
   exports |-> 0]

Rendered(kind, frame, text) ==
  [kind |-> kind, frame |-> frame, text |-> text, download |-> NoFile,
   exports |-> 0]

\* DataFrame.empty
IsEmpty(frame) == Len(frame.rows) = 0 \/ Len(frame.cols) = 0

Init ==
  /\ placements_csv = NoFile
  /\ eligible_csv = NoFile
  /\ pc = [s \in Sessions |-> "idle"]
  /\ df = [s \in Sessions |-> NoFrame]
  /\ inp = [s \in Sessions |-> NoInput]
  /\ out = [s \in Sessions |-> NoOutput]
  /\ stale = [s \in Sessions |-> FALSE]

\* A script run starts: init_csv() and df = load_data().
main(s) ==
  /\ pc[s] = "idle"
  /\ placements_csv' = init_csv(placements_csv)
  /\ df' = [df EXCEPT ![s] = load_data(placements_csv')]
  /\ pc' = [pc EXCEPT ![s] = "loaded"]
  /\ inp' = [inp EXCEPT ![s] = NoInput]
  /\ out' = [out EXCEPT ![s] = NoOutput]
  /\ stale' = [stale EXCEPT ![s] = FALSE]
  /\ UNCHANGED eligible_csv

\* The run ends: its local df is gone, its output stays on the page.
Finish(s, input, output) ==
  /\ pc' = [pc EXCEPT ![s] = "idle"]
  /\ df' = [df EXCEPT ![s] = NoFrame]
  /\ inp' = [inp EXCEPT ![s] = input]
  /\ out' = [out EXCEPT ![s] = output]

-----------------------------------------------------------------------------
(* Add Company *)

\* pd.concat([df, pd.DataFrame([new_entry])], ignore_index=True): the columns
\* are df's followed by those of new_entry that df lacks; a cell of a column
\* a row does not have is NaN.
concat(frame, entry) ==
  LET newcols == frame.cols \o
                   SelectSeq(EntryColumns, LAMBDA c : c \notin ColSet(frame.cols))
      widen(r, have) == [c \in ColSet(newcols) |-> IF c \in have THEN r[c] ELSE NA]
  IN  [cols |-> newcols,
       rows |-> [i \in DOMAIN frame.rows |->
                   widen(frame.rows[i], ColSet(frame.cols))]
                \o <<widen(entry, ColSet(EntryColumns))>>]


\* AddCompany appending to the file as it is at save time, not to the frame
\* the run loaded.
AddCompany_reload(s, entry) ==
  /\ pc[s] = "loaded"
  /\ Len(df[s].rows) < MaxRows
  /\ placements_csv' = save_data(concat(load_data(placements_csv), entry))
  /\ stale' = [stale EXCEPT ![s] = (read_csv(placements_csv) # df[s])]
  /\ Finish(s, [NoInput EXCEPT !.choice = "Add Company", !.new_entry = entry,
                               !.clicked = TRUE],
               Rendered("success", NoFrame, entry["Company"]))
  /\ UNCHANGED eligible_csv

AddCompany(s, entry) ==
  /\ pc[s] = "loaded"
  /\ Len(df[s].rows) < MaxRows
  /\ placements_csv' = save_data(concat(df[s], entry))
  /\ stale' = [stale EXCEPT ![s] = (read_csv(placements_csv) # df[s])]
  /\ Finish(s, [NoInput EXCEPT !.choice = "Add Company", !.new_entry = entry,
                               !.clicked = TRUE],
               Rendered("success", NoFrame, entry["Company"]))
  /\ UNCHANGED eligible_csv

-----------------------------------------------------------------------------
(* View Companies: search and sort *)

\* Lower case of a character of the alphabet used here: a, A, b, B.
Lower(ch) == IF ch = "A" THEN "a" ELSE IF ch = "B" THEN "b" ELSE ch

\* One pattern character against one text character under re.IGNORECASE:
\* str.contains takes the term as a regular expression (regex=True is the
\* default), where "." stands for any character.
CharMatch(p, ch) == p = "." \/ Lower(p) = Lower(ch)

\* Series.str.contains(pat, case=False, na=False) on one cell.
str_contains(cell, pat) ==
  /\ cell.k = "str"
  /\ \E off \in 0..(Len(cell.s) - Len(pat)) :
       \A j \in 1..Len(pat) : CharMatch(pat[j], cell.s[off + j])

\* The dtype read_csv gives a text column: object when some field holds text
\* (or the frame has no rows), float64 when every field is empty.
IsObject(frame, col) ==
  Len(frame.rows) = 0 \/ \E i \in DOMAIN frame.rows : frame.rows[i][col].k = "str"

\* frame[mask]: the rows whose entry in the boolean mask is True, in order.
Select(frame, mask) ==
  LET kept == SelectSeq([i \in DOMAIN frame.rows |-> i], LAMBDA i : mask[i])
  IN  [cols |-> frame.cols, rows |-> [j \in DOMAIN kept |-> frame.rows[kept[j]]]]

\* filtered_df[Role.str.contains(..) | Company.str.contains(..)]
search(frame, search_term) ==
  Select(frame, [i \in DOMAIN frame.rows |->
                   str_contains(frame.rows[i]["Role"], search_term)
                     \/ str_contains(frame.rows[i]["Company"], search_term)])

Perms(n) == {f \in [1..n -> 1..n] : \A i, j \in 1..n : f[i] = f[j] => i = j}

\* DataFrame.sort_values(by="Package(LPA)", ascending=..) with the default
\* kind="quicksort", which pandas documents as not stable: every arrangement
\* of the rows that is ordered by Package is a possible result.
sort_values(frame, ascending) ==
  {[cols |-> frame.cols, rows |-> [i \in DOMAIN frame.rows |-> frame.rows[f[i]]]] :
     f \in {g \in Perms(Len(frame.rows)) :
              \A i, j \in DOMAIN frame.rows :
                i < j => IF ascending
                         THEN frame.rows[g[i]]["Package(LPA)"].n
                                <= frame.rows[g[j]]["Package(LPA)"].n
                         ELSE frame.rows[g[i]]["Package(LPA)"].n
                                >= frame.rows[g[j]]["Package(LPA)"].n}}


\* sorted with the two directions exchanged.
sorted_swapped(frame, sort_order) ==
  IF sort_order = "Highest -> Lowest" THEN sort_values(frame, TRUE)
  ELSE IF sort_order = "Lowest -> Highest" THEN sort_values(frame, FALSE)
  ELSE {frame}

sorted(frame, sort_order) ==
  IF sort_order = "Highest -> Lowest" THEN sort_values(frame, FALSE)
  ELSE IF sort_order = "Lowest -> Highest" THEN sort_values(frame, TRUE)
  ELSE {frame}

ViewCompanies(s, search_term, sort_order) ==
  /\ pc[s] = "loaded"
  /\ LET input == [NoInput EXCEPT !.choice = "View Companies",
                                  !.search_term = search_term,
                                  !.sort_order = sort_order]
     IN  IF IsEmpty(df[s])
         THEN Finish(s, [NoInput EXCEPT !.choice = "View Companies"],
                        Rendered("warning", NoFrame, NA))
         ELSE IF search_term # <<>>
                 /\ (~IsObject(df[s], "Role") \/ ~IsObject(df[s], "Company"))
         THEN \* .str on a float64 column raises AttributeError
              Finish(s, input, Rendered("exception", NoFrame, NA))
         ELSE \E shown \in sorted(IF search_term # <<>>
                                  THEN search(df[s], search_term)
                                  ELSE df[s], sort_order) :
                Finish(s, input, Rendered("dataframe", shown, NA))
  /\ UNCHANGED <<placements_csv, eligible_csv, stale>>

-----------------------------------------------------------------------------
(* Check Eligibility *)

ShownColumns == <<"Company", "Role", "Package(LPA)">>

\* frame[[...]]: the frame restricted to the listed columns.
project(frame, cols) ==
  [cols |-> cols,
   rows |-> [i \in DOMAIN frame.rows |-> [c \in ColSet(cols) |-> frame.rows[i][c]]]]

\* Series <= x and Series >= x on one cell: a comparison with NaN is False.
le(cell, x) == cell.k = "num" /\ cell.n <= x

ge(cell, x) == cell.k = "num" /\ cell.n >= x


\* IsEligible with the backlog comparison turned round.
IsEligible_backlogs_flipped(r, p) ==
  /\ le(r["Eligibility_CGPA"], p.user_cgpa)
  /\ le(r["Backlogs_Allowed"], p.user_backlogs)
  /\ le(r["Eligibility_10th"], p.user_10th)
  /\ le(r["Eligibility_12th"], p.user_12th)

IsEligible(r, p) ==
  /\ le(r["Eligibility_CGPA"], p.user_cgpa)
  /\ ge(r["Backlogs_Allowed"], p.user_backlogs)
  /\ le(r["Eligibility_10th"], p.user_10th)
  /\ le(r["Eligibility_12th"], p.user_12th)

EligibilityColumns ==
  {"Eligibility_CGPA", "Backlogs_Allowed", "Eligibility_10th", "Eligibility_12th"}


\* exported writing only the displayed projection.
exported_projection(eligible) == to_csv(project(eligible, ShownColumns))

\* What the successful branch writes to eligible_companies.csv and hands to
\* the download button: eligible.to_csv(index=False), all of its columns.
exported(eligible) == to_csv(eligible)

CheckEligibility(s, p) ==
  /\ pc[s] = "loaded"
  /\ LET input == [NoInput EXCEPT !.choice = "Check Eligibility", !.profile = p,
                                  !.clicked = TRUE]
         eligible == Select(df[s], [i \in DOMAIN df[s].rows |->
                                        IsEligible(df[s].rows[i], p)])
     IN  IF ~(EligibilityColumns \subseteq ColSet(df[s].cols))
         THEN \* df["Backlogs_Allowed"] raises KeyError
              /\ Finish(s, input, Rendered("exception", NoFrame, NA))
              /\ UNCHANGED eligible_csv
         ELSE IF IsEmpty(eligible)
         THEN /\ Finish(s, input, Rendered("error", NoFrame, NA))
              /\ UNCHANGED eligible_csv
         ELSE /\ eligible_csv' = exported(eligible)
              /\ Finish(s, input,
                   [kind |-> "success", frame |-> project(eligible, ShownColumns),
                    text |-> NA, download |-> exported(eligible), exports |-> 1])
  /\ UNCHANGED <<placements_csv, stale>>

-----------------------------------------------------------------------------
(* Visualize Packages *)

ChartColumns == <<"Company", "Package(LPA)", "Role">>

VisualizePackages(s) ==
  /\ pc[s] = "loaded"
  /\ IF IsEmpty(df[s])
     THEN Finish(s, [NoInput EXCEPT !.choice = "Visualize Packages"],
                    Rendered("warning", NoFrame, NA))
     ELSE \E df_sorted \in sort_values(df[s], FALSE) :
            Finish(s, [NoInput EXCEPT !.choice = "Visualize Packages"],
                      Rendered("chart", project(df_sorted, ChartColumns), NA))
  /\ UNCHANGED <<placements_csv, eligible_csv, stale>>

-----------------------------------------------------------------------------
(* Remove Company *)

Separator == <<" ", "-", " ">>

\* Series + str and Series + Series on one cell: NaN where an operand is NaN.
add(a, b) == IF a.k = "na" \/ b.k = "na" THEN NA ELSE Str(a.s \o b.s)

\* df["Company"] + " - " + df["Role"] for one row.
Company_Role(r) == add(add(r["Company"], Str(Separator)), r["Role"])

\* df["Company_Role"] = ...: the frame with the label column added.
with_labels(frame) ==
  [cols |-> frame.cols \o <<"Company_Role">>,
   rows |-> [i \in DOMAIN frame.rows |->
               [c \in ColSet(frame.cols) \cup {"Company_Role"} |->
                  IF c = "Company_Role" THEN Company_Role(frame.rows[i])
                  ELSE frame.rows[i][c]]]]

\* df["Company_Role"].tolist(), the options of the selectbox.
company_role_list(frame) ==
  project(with_labels(frame), <<"Company_Role">>)

\* Series != value on one cell: NaN differs from everything, itself included.
ne(a, b) == a.k = "na" \/ b.k = "na" \/ a # b

\* DataFrame.drop(columns=[col])
drop(frame, col) ==
  project(frame, SelectSeq(frame.cols, LAMBDA c : c # col))

\* df[df["Company_Role"] != selected_entry].drop(columns=["Company_Role"])
remove_selected(frame, selected_entry) ==
  drop(Select(with_labels(frame),
              [i \in DOMAIN frame.rows |->
                 ne(with_labels(frame).rows[i]["Company_Role"], selected_entry)]),
       "Company_Role")

RemoveCompany(s, i, clicked) ==
  /\ pc[s] = "loaded"
  /\ i \in DOMAIN df[s].rows \/ (i = 0 /\ IsEmpty(df[s]) /\ ~clicked)
  /\ LET base == [NoInput EXCEPT !.choice = "Remove Company"]
     IN  IF IsEmpty(df[s])
         THEN /\ Finish(s, base, Rendered("warning", NoFrame, NA))
              /\ UNCHANGED <<placements_csv, stale>>
         ELSE IF ~IsObject(df[s], "Company")
         THEN \* float64 Series + str raises TypeError
              /\ Finish(s, base, Rendered("exception", NoFrame, NA))
              /\ UNCHANGED <<placements_csv, stale>>
         ELSE LET selected_entry == Company_Role(df[s].rows[i])
                  input == [base EXCEPT !.selected_entry = selected_entry,
                                        !.clicked = clicked]
              IN  IF ~clicked
                  THEN /\ Finish(s, input,
                            Rendered("selectbox", company_role_list(df[s]), NA))
                       /\ UNCHANGED <<placements_csv, stale>>
                  ELSE \* Delete Company pressed; st.rerun() starts the next run
                       /\ placements_csv' =
                            save_data(remove_selected(df[s], selected_entry))
                       /\ stale' = [stale EXCEPT ![s] =
                                      (read_csv(placements_csv) # df[s])]
                       /\ Finish(s, input, Rendered("success", NoFrame, selected_entry))
  /\ UNCHANGED eligible_csv

-----------------------------------------------------------------------------
(* Inputs and specifications *)

Entry(company, role, package, cgpa, backlogs, perc_10th, perc_12th) ==
  [c \in ColSet(EntryColumns) |->
     CASE c = "Company" -> Str(company)
       [] c = "Role" -> Str(role)
       [] c = "Package(LPA)" -> Num(package)
       [] c = "Eligibility_CGPA" -> Num(cgpa)
       [] c = "Backlogs_Allowed" -> Num(backlogs)
       [] c = "Eligibility_10th" -> Num(perc_10th)
       [] OTHER -> Num(perc_12th)]

\* Submitted forms: a plain entry, one with an empty company name, one with
\* the same company and role as the first, and one with an empty role.
Entries ==
  {Entry(<<"A", "b">>, <<"b">>, 2, 1, 1, 1, 1),
   Entry(<<>>, <<"a">>, 1, 1, 1, 1, 1),
   Entry(<<"A", "b">>, <<"b">>, 1, 2, 0, 1, 1),
   Entry(<<"a">>, <<>>, 2, 0, 1, 2, 0)}

ConcurrentEntries ==
  {Entry(<<"A", "b">>, <<"b">>, 2, 1, 1, 1, 1),
   Entry(<<"a">>, <<"a">>, 1, 1, 1, 1, 1)}

Levels == 0..2

Profiles ==
  [user_cgpa : Levels, user_backlogs : Levels, user_10th : Levels, user_12th : Levels]

SearchTerms == {<<>>, <<"a">>, <<"B">>, <<".">>, <<"a", "b">>}

SortOrders == {"None", "Highest -> Lowest", "Lowest -> Highest"}

Handlers(s, entries) ==
  \/ \E search_term \in SearchTerms, sort_order \in SortOrders :
       ViewCompanies(s, search_term, sort_order)
  \/ \E entry \in entries : AddCompany(s, entry)
  \/ \E p \in Profiles : CheckEligibility(s, p)
  \/ VisualizePackages(s)
  \/ \E i \in 0..MaxRows, clicked \in BOOLEAN : RemoveCompany(s, i, clicked)

\* One browser session: the runs of the script follow one another.
Next ==
  \/ main("s1")
  \/ Handlers("s1", Entries)

Spec == Init /\ [][Next]_vars

\* Two browser sessions on the same placements.csv, their runs interleaved
\* between load_data and save_data.
NextConcurrent ==
  \E s \in Sessions :
    \/ main(s)
    \/ \E entry \in ConcurrentEntries : AddCompany(s, entry)
    \/ \E i \in 0..MaxRows, clicked \in BOOLEAN : RemoveCompany(s, i, clicked)

SpecConcurrent == Init /\ [][NextConcurrent]_vars

-----------------------------------------------------------------------------
(* Properties *)

\* A handler step of session s for the menu entry `choice`.
Ran(s, choice) == pc[s] = "loaded" /\ pc'[s] = "idle" /\ inp'[s].choice = choice

Restrict(r, colset) == [c \in colset |-> r[c]]

Reverse(seq) == [i \in DOMAIN seq |-> seq[Len(seq) + 1 - i]]

\* The four thresholds of the specification, on the stored numbers.
MeetsThresholds(r, p) ==
  /\ r["Eligibility_CGPA"].n <= p.user_cgpa
  /\ r["Backlogs_Allowed"].n >= p.user_backlogs
  /\ r["Eligibility_10th"].n <= p.user_10th
  /\ r["Eligibility_12th"].n <= p.user_12th

\* The rows a Check Eligibility run selected: those it exported and offered
\* for download, none when it rendered no table.
SelectedRows(s) ==
  IF out[s].kind = "success" THEN read_csv(out[s].download).rows ELSE <<>>

\* C1: for every loaded dataset and every profile, the rows Check Eligibility
\* selects are exactly the rows with Eligibility_CGPA <= CGPA, Backlogs_Allowed
\* >= Backlogs, Eligibility_10th <= Pct10th and Eligibility_12th <= Pct12th
\* (inclusive at the thresholds), in the original row order.
C1_EligibleRowsExact ==
  [][\A s \in Sessions :
       Ran(s, "Check Eligibility") =>
         SelectedRows(s)' =
           SelectSeq(df[s].rows, LAMBDA r : MeetsThresholds(r, inp'[s].profile))]_vars

\* A check that selected a row sitting exactly on all four thresholds and left
\* another stored row out.
C1_Witness ==
  \E s \in Sessions :
    /\ inp[s].choice = "Check Eligibility"
    /\ out[s].kind = "success"
    /\ Len(out[s].download.rows) < Len(placements_csv.rows)
    /\ \E i \in DOMAIN out[s].download.rows :
         LET r == out[s].download.rows[i]
             p == inp[s].profile
         IN  /\ r["Eligibility_CGPA"].n = p.user_cgpa
             /\ r["Backlogs_Allowed"].n = p.user_backlogs
             /\ r["Eligibility_10th"].n = p.user_10th
             /\ r["Eligibility_12th"].n = p.user_12th

\* C2: Add then Load round-trip: after an Add of record R on the loaded
\* dataset D (no other writer in between), a reload from storage yields
\* D ++ [R]: the prior rows unchanged and in order, and R last with its seven
\* field values as submitted.
C2_AddThenLoad ==
  [][\A s \in Sessions :
       (Ran(s, "Add Company") /\ ~stale'[s]) =>
         LET after == load_data(placements_csv')
             n == Len(df[s].rows)
         IN  /\ Len(after.rows) = n + 1
             /\ \A i \in 1..n :
                  Restrict(after.rows[i], ColSet(df[s].cols)) = df[s].rows[i]
             /\ Restrict(after.rows[n + 1], ColSet(EntryColumns))
                  = inp'[s].new_entry]_vars

\* C3: on a confirmed Remove with selected label L the persisted dataset is
\* the previous one without every row whose composite label equals L (one row
\* if L occurs once), the other rows unchanged and in order, and no label
\* column is written.
C3_RemoveAllMatching ==
  [][\A s \in Sessions :
       (Ran(s, "Remove Company") /\ inp'[s].clicked /\ ~stale'[s]) =>
         /\ placements_csv'.cols = df[s].cols
         /\ load_data(placements_csv').rows =
              SelectSeq(df[s].rows,
                        LAMBDA r : Company_Role(r) # inp'[s].selected_entry)]_vars

\* C4: last write wins.  A save writes the saving session's own snapshot plus
\* its change over the whole file, whatever the file holds by then, and the
\* session is shown success; so of two sessions that both load and then both
\* add, the second overwrites the first one's row.
C4_SaveOverwritesFromSnapshot ==
  [][\A s \in Sessions :
       Ran(s, "Add Company") =>
         LET n == Len(df[s].rows)
             Written(r, colset) == [c \in colset |-> ToCsvField(r[c])]
         IN  /\ out'[s].kind = "success"
             /\ Len(placements_csv'.rows) = n + 1
             /\ \A i \in 1..n :
                  Restrict(placements_csv'.rows[i], ColSet(df[s].cols))
                    = Written(df[s].rows[i], ColSet(df[s].cols))
             /\ Restrict(placements_csv'.rows[n + 1], ColSet(EntryColumns))
                  = Written(inp'[s].new_entry, ColSet(EntryColumns))]_vars

\* Both sessions were shown success for their Add, the second saved over a
\* file that had changed since it loaded, and the file holds the second
\* session's row but not the first one's.
C4_Witness ==
  \E a, b \in Sessions :
    /\ a # b
    /\ inp[a].choice = "Add Company" /\ out[a].kind = "success"
    /\ inp[b].choice = "Add Company" /\ out[b].kind = "success"
    /\ stale[b]
    /\ inp[a].new_entry # inp[b].new_entry
    /\ \E i \in DOMAIN placements_csv.rows :
         Restrict(placements_csv.rows[i], ColSet(EntryColumns)) = inp[b].new_entry
    /\ \A i \in DOMAIN placements_csv.rows :
         Restrict(placements_csv.rows[i], ColSet(EntryColumns)) # inp[a].new_entry

\* C5 (as claimed): after a check that finds an eligible row, the export was
\* written once and it and the download hold the eligible rows projected to
\* Company, Role, Package(LPA), the projection that is displayed.
C5_ExportIsProjection ==
  \A s \in Sessions :
    (inp[s].choice = "Check Eligibility" /\ out[s].kind = "success") =>
      /\ out[s].exports = 1
      /\ eligible_csv = out[s].download
      /\ eligible_csv = to_csv(out[s].frame)

\* C5 (amended): after a check that finds an eligible row, the export was
\* written once, replaced whatever it held, and it and the download hold the
\* eligible rows with all columns of the loaded dataset; the table displayed
\* is their projection to Company, Role, Package(LPA).
C5_ExportIsFullRows ==
  [][\A s \in Sessions :
       (Ran(s, "Check Eligibility") /\ out'[s].kind = "success") =>
         /\ out'[s].exports = 1
         /\ eligible_csv' = out'[s].download
         /\ eligible_csv'.exists
         /\ eligible_csv'.cols = df[s].cols
         /\ read_csv(eligible_csv').rows =
              SelectSeq(df[s].rows, LAMBDA r : MeetsThresholds(r, inp'[s].profile))
         /\ out'[s].frame.cols = ShownColumns
         /\ out'[s].frame.rows =
              [i \in DOMAIN eligible_csv'.rows |->
                 Restrict(read_csv(eligible_csv').rows[i], ColSet(ShownColumns))]]_vars

\* A successful check of a two-row dataset that exported one row.
C5_Witness ==
  \E s \in Sessions :
    /\ inp[s].choice = "Check Eligibility"
    /\ out[s].kind = "success"
    /\ Len(placements_csv.rows) = 2
    /\ Len(eligible_csv.rows) = 1
    /\ Len(eligible_csv.cols) > Len(out[s].frame.cols)

\* C6: init_csv creates a missing placements.csv with zero rows and the seven
\* canonical columns in order, and leaves an existing file unchanged.
C6_InitCanonicalHeader ==
  [][\A s \in Sessions :
       (pc[s] = "idle" /\ pc'[s] = "loaded") =>
         IF placements_csv.exists
         THEN placements_csv' = placements_csv
         ELSE placements_csv' =
                [exists |-> TRUE, cols |-> EntryColumns, rows |-> <<>>]]_vars

\* t occurs in the text as a substring, letter case ignored.
HasSubstring(cell, t) ==
  /\ cell.k = "str"
  /\ \E off \in 0..(Len(cell.s) - Len(t)) :
       \A j \in 1..Len(t) : Lower(cell.s[off + j]) = Lower(t[j])

\* C7: on a non-empty dataset the List search never raises; with an empty term
\* it returns the dataset unchanged, otherwise exactly the rows whose Company
\* or Role contains the term as a case-insensitive substring, in order, a
\* null Company or Role never matching.
C7_SearchSubstring ==
  [][\A s \in Sessions :
       (Ran(s, "View Companies") /\ ~IsEmpty(df[s])
          /\ inp'[s].sort_order = "None") =>
         /\ out'[s].kind = "dataframe"
         /\ out'[s].frame.rows =
              IF inp'[s].search_term = <<>> THEN df[s].rows
              ELSE SelectSeq(df[s].rows,
                     LAMBDA r : HasSubstring(r["Company"], inp'[s].search_term)
                                  \/ HasSubstring(r["Role"], inp'[s].search_term))]_vars

PackageOf(r) == r["Package(LPA)"].n

InOrder(rows, sort_order) ==
  \A i, j \in DOMAIN rows :
    i < j => IF sort_order = "Lowest -> Highest"
             THEN PackageOf(rows[i]) <= PackageOf(rows[j])
             ELSE PackageOf(rows[i]) >= PackageOf(rows[j])

\* The stable arrangement: ordered by Package, rows of equal Package in their
\* original relative order.
StableSorted(rows, sort_order) ==
  LET g == CHOOSE f \in Perms(Len(rows)) :
             /\ InOrder([i \in DOMAIN rows |-> rows[f[i]]], sort_order)
             /\ \A i, j \in DOMAIN rows :
                  (i < j /\ PackageOf(rows[f[i]]) = PackageOf(rows[f[j]]))
                    => f[i] < f[j]
  IN  [i \in DOMAIN rows |-> rows[g[i]]]

\* The rows the List view sorts: the dataset, or the rows the search kept.
Searched(s) ==
  IF inp'[s].search_term = <<>> THEN df[s]
  ELSE search(df[s], inp'[s].search_term)

Opposite(sort_order) ==
  IF sort_order = "Lowest -> Highest" THEN "Highest -> Lowest"
  ELSE "Lowest -> Highest"

\* C8 (as claimed): sort None returns the rows in input order; Descending and
\* Ascending return the rows ordered by Package with rows of equal Package in
\* their original relative order (a stable sort).
C8_SortStable ==
  [][\A s \in Sessions :
       (Ran(s, "View Companies") /\ out'[s].kind = "dataframe") =>
         out'[s].frame.rows =
           IF inp'[s].sort_order = "None" THEN Searched(s).rows
           ELSE StableSorted(Searched(s).rows, inp'[s].sort_order)]_vars

\* C8 (amended): sort None returns the rows in input order; Descending and
\* Ascending return a permutation of the rows ordered by Package in that
\* direction; when all Package values are distinct the result reversed is the
\* result of the other direction.  The order of rows of equal Package is not
\* fixed.
C8_SortOrdered ==
  [][\A s \in Sessions :
       (Ran(s, "View Companies") /\ out'[s].kind = "dataframe") =>
         LET src == Searched(s).rows
             shown == out'[s].frame.rows
             order == inp'[s].sort_order
         IN  IF order = "None" THEN shown = src
             ELSE /\ \E f \in Perms(Len(src)) :
                       shown = [i \in DOMAIN src |-> src[f[i]]]
                  /\ InOrder(shown, order)
                  /\ (\A i, j \in DOMAIN src :
                        i # j => PackageOf(src[i]) # PackageOf(src[j]))
                       => sorted(Searched(s), Opposite(order))
                            = {[cols |-> df[s].cols, rows |-> Reverse(shown)]}]_vars

\* A Descending view of a dataset stored in ascending order of Package.
C8_Witness ==
  \E s \in Sessions :
    /\ inp[s].choice = "View Companies"
    /\ inp[s].sort_order = "Highest -> Lowest"
    /\ inp[s].search_term = <<>>
    /\ out[s].kind = "dataframe"
    /\ Len(placements_csv.rows) = 2
    /\ PackageOf(placements_csv.rows[1]) < PackageOf(placements_csv.rows[2])
    /\ Len(out[s].frame.rows) = 2
    /\ PackageOf(out[s].frame.rows[1]) > PackageOf(out[s].frame.rows[2])

\* C9: on every dataset init_csv and the handlers can leave, the freshly
\* created one included, a check that matches no row ends with the "no
\* companies" message, not with a failure, and writes neither file.
C9_NoMatchIsMessage ==
  [][\A s \in Sessions :
       (Ran(s, "Check Eligibility")
          /\ \A i \in DOMAIN df[s].rows :
               ~MeetsThresholds(df[s].rows[i], inp'[s].profile)) =>
         /\ out'[s].kind = "error"
         /\ placements_csv' = placements_csv
         /\ eligible_csv' = eligible_csv]_vars

\* C10: every stored row can be deleted: on a non-empty dataset the Remove
\* page offers a label for each row, and selecting a row's label and pressing
\* Delete leaves a persisted dataset that is shorter and no longer holds the
\* row.
C10_EveryRowDeletable ==
  [][\A s \in Sessions :
       (Ran(s, "Remove Company") /\ ~IsEmpty(df[s]) /\ ~stale'[s]) =>
         /\ out'[s].kind # "exception"
         /\ inp'[s].clicked =>
              /\ Len(placements_csv'.rows) < Len(df[s].rows)
              /\ \A i \in DOMAIN df[s].rows :
                   Company_Role(df[s].rows[i]) = inp'[s].selected_entry =>
                     \A j \in DOMAIN placements_csv'.rows :
                       load_data(placements_csv').rows[j] # df[s].rows[i]]_vars

====
